---- MODULE Spec2Model ----
(***************************************************************************)
(* Robotiq85ActionServer (single_robotiq_85_action_server.py).             *)
(*                                                                         *)
(* Lengths are integers in units of 0.1 mm (0.04 m = 400), time is an      *)
(* integer number of periods of the 100 Hz rate of the polling loop.       *)
(* Every execution of _execute_callback is a thread of its own; its steps  *)
(* are the places where it touches state shared with other threads (the    *)
(* clock, rclpy.ok(), self._stat, the goal handle, the command topic).     *)
(***************************************************************************)
EXTENDS Integers, Sequences, FiniteSets

\* ------------------------------------------------------------- bounds ---
\* Last value of the clock.
MaxTime == 4
\* The 'timeout' parameter (self._timeout), in periods of the rate.
TimeoutTicks == 3

\* ---------------------------------------------------------- constants ---
\* declare_parameter('position_tolerance', 0.005)
_position_tolerance == 50
\* declare_parameter('gripper_speed', 0.0565)
_gripper_speed == 565

\* The goal handles: the goals a client may send.
Goals == {1, 2}

\* GripperStat messages of /gripper/stat; present = FALSE is Python's None.
GripperStat(p, m, o) ==
    [present |-> TRUE, position |-> p, is_moving |-> m, obj_detected |-> o]

None == [present |-> FALSE, position |-> 0, is_moving |-> FALSE, obj_detected |-> FALSE]

StatValues ==
    { GripperStat(200, TRUE, FALSE), GripperStat(380, TRUE, FALSE),
      GripperStat(410, FALSE, FALSE), GripperStat(200, FALSE, TRUE) }

\* GripperCommand goals (goal_handle.request.command).
Requests ==
    { [position |-> 400, max_effort |-> 100], [position |-> 250, max_effort |-> 40] }

NoRequest == [position |-> 0, max_effort |-> 0]

\* GripperCommand.Feedback() / GripperCommand.Result(): default-constructed.
Feedback == [position |-> 0, stalled |-> FALSE, reached_goal |-> FALSE]

\* The status stream of the concrete scenario, tick by tick (t0..t3).
Scenario ==
    << None, GripperStat(200, TRUE, FALSE), GripperStat(380, TRUE, FALSE),
       GripperStat(410, FALSE, FALSE) >>

VARIABLES
    _stat,        \* self._stat
    now,          \* the node's clock (get_time())
    ok,           \* rclpy.ok()
    handle,       \* goal handle status per goal
    request,      \* goal_handle.request.command per goal
    pc,           \* position of the goal's _execute_callback
    thread,       \* the spin thread started by the goal's callback
    start_time,   \* local start_time
    dt,           \* local dt
    feedback_msg, \* local feedback_msg
    result_msg,   \* local result_msg
    cmds,         \* messages published on /gripper/cmd, in order
    outcome,      \* how the polling loop was left
    nticks,       \* poll ticks begun (loop bodies entered past the timeout test)
    nfb,          \* feedbacks published for the goal
    objSeen,      \* self._stat.obj_detected when line 153 was evaluated
    scen,         \* ticks of the goal that followed Scenario so far (-1: none)
    feed,         \* the statuses the actuator publishes on /gripper/stat
    clients,      \* the number of goals the client sends
    transport,    \* "up", or "down": publishing on /gripper/cmd raises
    stat_msg,     \* the last message delivered on /gripper/stat (None: none yet)
    heard         \* a status was delivered while the goal's callback was in its run

vars ==
    << _stat, now, ok, handle, request, pc, thread, start_time, dt, feedback_msg,
       result_msg, cmds, outcome, nticks, nfb, objSeen, scen, feed, clients, transport,
       stat_msg, heard >>

feedVars == << stat_msg, heard >>
threadVars == << pc, thread, start_time, dt, feedback_msg, result_msg >>
histVars == << outcome, nticks, nfb, objSeen, scen >>

fabs(x) == IF x < 0 THEN -x ELSE x

\* The node after __init__: no status yet, no goal. The client of this
\* specification sends one goal; the actuator publishes any of StatValues.
Init ==
    /\ _stat = None
    /\ now = 0
    /\ ok = TRUE
    /\ handle = [g \in Goals |-> "none"]
    /\ request = [g \in Goals |-> NoRequest]
    /\ pc = [g \in Goals |-> "idle"]
    /\ thread = [g \in Goals |-> "none"]
    /\ start_time = [g \in Goals |-> 0]
    /\ dt = [g \in Goals |-> 0]
    /\ feedback_msg = [g \in Goals |-> Feedback]
    /\ result_msg = [g \in Goals |-> Feedback]
    /\ cmds = << >>
    /\ outcome = [g \in Goals |-> "none"]
    /\ nticks = [g \in Goals |-> 0]
    /\ nfb = [g \in Goals |-> 0]
    /\ objSeen = [g \in Goals |-> FALSE]
    /\ scen = [g \in Goals |-> 0]
    /\ feed = StatValues
    /\ clients = 1
    /\ transport = "up"
    /\ stat_msg = None
    /\ heard = [g \in Goals |-> FALSE]

\* ------------------------------------------------- environment: rclpy ---
\* get_time(): the clock moves on.
get_time ==
    /\ now < MaxTime
    /\ now' = now + 1
    /\ UNCHANGED << _stat, ok, handle, request, cmds, feed, clients, transport >>
    /\ UNCHANGED feedVars
    /\ UNCHANGED threadVars
    /\ UNCHANGED histVars

\* rclpy.ok() turns false (SIGINT, rclpy.shutdown()).
Shutdown ==
    /\ ok
    /\ ok' = FALSE
    /\ UNCHANGED << _stat, now, handle, request, cmds, feed, clients, transport >>
    /\ UNCHANGED feedVars
    /\ UNCHANGED threadVars
    /\ UNCHANGED histVars

\* The subscription of line 75 delivers data: the history of the topic.
Delivered(data) ==
    /\ stat_msg' = data
    /\ heard' = [g \in Goals |->
                    heard[g] \/ (pc[g] \notin {"idle", "ready"} /\ outcome[g] = "none")]

\* A subscription callback that keeps the first status it was given.
_update_gripper_stat_once(data) ==
    /\ ok
    /\ data \in feed
    /\ _stat' = IF _stat.present THEN _stat ELSE data
    /\ Delivered(data)
    /\ UNCHANGED << now, ok, handle, request, cmds, feed, clients, transport >>
    /\ UNCHANGED threadVars
    /\ UNCHANGED histVars

\* def _update_gripper_stat(self, data): self._stat = data
_update_gripper_stat(data) ==
    /\ ok
    /\ data \in feed
    /\ _stat' = data
    /\ Delivered(data)
    /\ UNCHANGED << now, ok, handle, request, cmds, feed, clients, transport >>
    /\ UNCHANGED threadVars
    /\ UNCHANGED histVars

\* A goal callback that checks the position against a range.
_goal_callback_bounded(goal_request) ==
    IF goal_request.position > 300 THEN "REJECT" ELSE "ACCEPT"

\* def _goal_callback(self, goal_request): return GoalResponse.ACCEPT
_goal_callback(goal_request) == "ACCEPT"

\* def _cancel_callback(self, goal_handle): return CancelResponse.ACCEPT
_cancel_callback(goal_handle) == "ACCEPT"

\* A goal is still executing: its handle is in no terminal status.
Executing(g) == handle[g] \in {"executing", "canceling"}

\* The action server takes a goal request: it asks _goal_callback and, on
\* ACCEPT, marks the handle executing and schedules _execute_callback as a
\* task of the executor (outside the server's callback group).
GoalRequest(g, goal_request) ==
    /\ ok
    /\ handle[g] = "none"
    /\ g <= clients
    /\ \A h \in Goals : h < g => handle[h] # "none"
    /\ IF _goal_callback(goal_request) = "ACCEPT"
       THEN /\ handle' = [handle EXCEPT ![g] = "executing"]
            /\ request' = [request EXCEPT ![g] = goal_request]
            /\ pc' = [pc EXCEPT ![g] = "ready"]
       ELSE /\ handle' = [handle EXCEPT ![g] = "rejected"]
            /\ UNCHANGED << request, pc >>
    /\ UNCHANGED << _stat, now, ok, cmds, feed, clients, transport >>
    /\ UNCHANGED feedVars
    /\ UNCHANGED << thread, start_time, dt, feedback_msg, result_msg >>
    /\ UNCHANGED histVars

\* The action server takes a cancel request for an executing goal: it asks
\* _cancel_callback and, on ACCEPT, marks the handle canceling
\* (goal_handle.is_cancel_requested becomes true).
CancelRequest(g) ==
    /\ ok
    /\ handle[g] = "executing"
    /\ IF _cancel_callback(g) = "ACCEPT"
       THEN handle' = [handle EXCEPT ![g] = "canceling"]
       ELSE UNCHANGED handle
    /\ UNCHANGED << _stat, now, ok, request, cmds, feed, clients, transport >>
    /\ UNCHANGED feedVars
    /\ UNCHANGED threadVars
    /\ UNCHANGED histVars

\* The thread of lines 126-127 runs rclpy.spin(self), which returns only
\* when the context is shut down.
SpinExit(g) ==
    /\ thread[g] = "running"
    /\ ~ok
    /\ thread' = [thread EXCEPT ![g] = "finished"]
    /\ UNCHANGED << _stat, now, ok, handle, request, cmds, feed, clients, transport >>
    /\ UNCHANGED feedVars
    /\ UNCHANGED << pc, start_time, dt, feedback_msg, result_msg >>
    /\ UNCHANGED histVars

\* ----------------------------------------------- _execute_callback ---
\* The fields of the goal assigned to the wrong fields of the command.
GripperCmdSwapped(g) ==
    [goal |-> g, position |-> request[g].max_effort, force |-> request[g].position,
     speed |-> _gripper_speed]

\* Lines 119-122: the GripperCmd built from the goal ("goal" tags the
\* execution that published it).
GripperCmd(g) ==
    [goal |-> g, position |-> request[g].position, force |-> request[g].max_effort,
     speed |-> _gripper_speed]

\* The timeout reached one period early.
TimeoutReachedEarly(d) == ~(d < TimeoutTicks - 1)

\* The timeout reached one period late.
TimeoutReachedLate(d) == ~(d < TimeoutTicks + 1)

\* Line 141: if not (dt < self._timeout)
TimeoutReached(d) == ~(d < TimeoutTicks)

\* The position error compared without fabs.
WithinToleranceSigned(g, position) ==
    request[g].position - position < _position_tolerance

\* Line 153: fabs(goal position - feedback_msg.position) < tolerance
WithinTolerance(g, position) ==
    fabs(request[g].position - position) < _position_tolerance

\* The condition without the object-grasped disjunct.
GoalAchievedNoObject(g) ==
    fabs(request[g].position - feedback_msg[g].position) < _position_tolerance

\* Line 153: the whole condition; feedback_msg.position was assigned at line
\* 149, self._stat.obj_detected is read now.
GoalAchieved(g) ==
    WithinTolerance(g, feedback_msg[g].position) \/ _stat.obj_detected

\* Names bound when line 167 runs: the locals of _execute_callback and the
\* module's globals.
BoundNames ==
    { "self", "goal_handle", "cmd_msg", "thread", "feedback_msg", "result_msg",
      "rate", "start_time", "dt",
      "threading", "time", "np", "fabs", "rclpy", "Node", "ActionServer",
      "CancelResponse", "GoalResponse", "ReentrantCallbackGroup",
      "MutuallyExclusiveCallbackGroup", "MultiThreadedExecutor",
      "ParameterNotDeclaredException", "ParameterType", "Robotiq85Gripper",
      "JointState", "GripperCommand", "GripperStat", "Robotiq85ActionServer",
      "main" }

\* The tick that ends now followed the scenario: it found no status where
\* the scenario has none, and else read the position, is_moving and
\* obj_detected of the scenario's status of that tick.
ScenNext(g, present) ==
    IF /\ scen[g] >= 0
       /\ scen[g] < Len(Scenario)
       /\ Scenario[scen[g] + 1].present = present
       /\ present =>
            /\ feedback_msg[g].position = Scenario[scen[g] + 1].position
            /\ feedback_msg[g].stalled = ~Scenario[scen[g] + 1].is_moving
            /\ objSeen[g] = Scenario[scen[g] + 1].obj_detected
    THEN scen[g] + 1
    ELSE -1

\* A callback that clears the status register when it takes the goal.
DispatchClearing(g) ==
    /\ pc[g] = "ready"
    /\ _stat' = None
    /\ IF transport = "up"
       THEN /\ cmds' = Append(cmds, GripperCmd(g))
            /\ thread' = [thread EXCEPT ![g] = "running"]
            /\ pc' = [pc EXCEPT ![g] = "init"]
            /\ UNCHANGED outcome
       ELSE /\ pc' = [pc EXCEPT ![g] = "raised"]
            /\ outcome' = [outcome EXCEPT ![g] = "dispatch_failed"]
            /\ UNCHANGED << cmds, thread >>
    /\ UNCHANGED << now, ok, handle, request, feed, clients, transport >>
    /\ UNCHANGED feedVars
    /\ UNCHANGED << start_time, dt, feedback_msg, result_msg >>
    /\ UNCHANGED << nticks, nfb, objSeen, scen >>

\* Lines 116-127: publish the command, start the spin thread. A publish
\* that raises (no transport) is not caught: the exception ends the callback.
Dispatch(g) ==
    /\ pc[g] = "ready"
    /\ IF transport = "up"
       THEN /\ cmds' = Append(cmds, GripperCmd(g))
            /\ thread' = [thread EXCEPT ![g] = "running"]
            /\ pc' = [pc EXCEPT ![g] = "init"]
            /\ UNCHANGED outcome
       ELSE /\ pc' = [pc EXCEPT ![g] = "raised"]
            /\ outcome' = [outcome EXCEPT ![g] = "dispatch_failed"]
            /\ UNCHANGED << cmds, thread >>
    /\ UNCHANGED << _stat, now, ok, handle, request, feed, clients, transport >>
    /\ UNCHANGED feedVars
    /\ UNCHANGED << start_time, dt, feedback_msg, result_msg >>
    /\ UNCHANGED << nticks, nfb, objSeen, scen >>

\* Lines 129-135: the messages, the rate, start_time.
LoopInit(g) ==
    /\ pc[g] = "init"
    /\ feedback_msg' = [feedback_msg EXCEPT ![g] = Feedback]
    /\ result_msg' = [result_msg EXCEPT ![g] = [Feedback EXCEPT !.reached_goal = FALSE]]
    /\ start_time' = [start_time EXCEPT ![g] = now]
    /\ pc' = [pc EXCEPT ![g] = "while"]
    /\ UNCHANGED << _stat, now, ok, handle, request, cmds, feed, clients, transport >>
    /\ UNCHANGED feedVars
    /\ UNCHANGED << thread, dt >>
    /\ UNCHANGED histVars

\* Lines 137-143: the loop test, dt, the timeout test.
LoopHead(g) ==
    /\ pc[g] = "while"
    /\ IF ~ok
       THEN /\ outcome' = [outcome EXCEPT ![g] = "shutdown"]
            /\ pc' = [pc EXCEPT ![g] = "join"]
            /\ UNCHANGED << dt, nticks, objSeen >>
       ELSE /\ dt' = [dt EXCEPT ![g] = now - start_time[g]]
            /\ IF TimeoutReached(dt'[g])
               THEN /\ outcome' = [outcome EXCEPT ![g] = "timedout"]
                    /\ pc' = [pc EXCEPT ![g] = "join"]
                    /\ UNCHANGED << nticks, objSeen >>
               ELSE /\ pc' = [pc EXCEPT ![g] = "stat"]
                    /\ nticks' = [nticks EXCEPT ![g] = @ + 1]
                    /\ objSeen' = [objSeen EXCEPT ![g] = FALSE]
                    /\ UNCHANGED outcome
    /\ UNCHANGED << _stat, now, ok, handle, request, cmds, feed, clients, transport >>
    /\ UNCHANGED feedVars
    /\ UNCHANGED << thread, start_time, feedback_msg, result_msg >>
    /\ UNCHANGED << nfb, scen >>

\* Lines 146-147: if self._stat is None: warn (and go to rate.sleep()).
CheckStat(g) ==
    /\ pc[g] = "stat"
    /\ IF ~_stat.present
       THEN /\ pc' = [pc EXCEPT ![g] = "sleep"]
            /\ scen' = [scen EXCEPT ![g] = ScenNext(g, FALSE)]
       ELSE /\ pc' = [pc EXCEPT ![g] = "position"]
            /\ UNCHANGED scen
    /\ UNCHANGED << _stat, now, ok, handle, request, cmds, feed, clients, transport >>
    /\ UNCHANGED feedVars
    /\ UNCHANGED << thread, start_time, dt, feedback_msg, result_msg >>
    /\ UNCHANGED << outcome, nticks, nfb, objSeen >>

\* Line 149: feedback_msg.position = self._stat.position
ReadPosition(g) ==
    /\ pc[g] = "position"
    /\ feedback_msg' = [feedback_msg EXCEPT ![g].position = _stat.position]
    /\ pc' = [pc EXCEPT ![g] = "stalled"]
    /\ UNCHANGED << _stat, now, ok, handle, request, cmds, feed, clients, transport >>
    /\ UNCHANGED feedVars
    /\ UNCHANGED << thread, start_time, dt, result_msg >>
    /\ UNCHANGED histVars

\* Line 150: feedback_msg.stalled = not self._stat.is_moving
ReadStalled(g) ==
    /\ pc[g] = "stalled"
    /\ feedback_msg' = [feedback_msg EXCEPT ![g].stalled = ~_stat.is_moving]
    /\ pc' = [pc EXCEPT ![g] = "reached"]
    /\ UNCHANGED << _stat, now, ok, handle, request, cmds, feed, clients, transport >>
    /\ UNCHANGED feedVars
    /\ UNCHANGED << thread, start_time, dt, result_msg >>
    /\ UNCHANGED histVars

\* Lines 153-155: position tolerance achieved or object grasped.
CheckReached(g) ==
    /\ pc[g] = "reached"
    /\ objSeen' = [objSeen EXCEPT ![g] = _stat.obj_detected]
    /\ IF GoalAchieved(g)
       THEN feedback_msg' = [feedback_msg EXCEPT ![g].reached_goal = TRUE]
       ELSE UNCHANGED feedback_msg
    /\ pc' = [pc EXCEPT ![g] = "publish"]
    /\ UNCHANGED << _stat, now, ok, handle, request, cmds, feed, clients, transport >>
    /\ UNCHANGED feedVars
    /\ UNCHANGED << thread, start_time, dt, result_msg >>
    /\ UNCHANGED << outcome, nticks, nfb, scen >>

\* The publication of the feedback without the break of line 161.
PublishFeedbackNoBreak(g) ==
    /\ pc[g] = "publish"
    /\ nfb' = [nfb EXCEPT ![g] = @ + 1]
    /\ scen' = [scen EXCEPT ![g] = ScenNext(g, TRUE)]
    /\ IF feedback_msg[g].reached_goal
       THEN /\ handle' = [handle EXCEPT ![g] = "succeeded"]
            /\ outcome' = [outcome EXCEPT ![g] = "succeeded"]
       ELSE UNCHANGED << handle, outcome >>
    /\ pc' = [pc EXCEPT ![g] = "sleep"]
    /\ UNCHANGED << _stat, now, ok, request, cmds, feed, clients, transport >>
    /\ UNCHANGED feedVars
    /\ UNCHANGED << thread, start_time, dt, feedback_msg, result_msg >>
    /\ UNCHANGED << nticks, objSeen >>

\* Lines 157-161: publish_feedback; if reached_goal: succeed() and break.
PublishFeedback(g) ==
    /\ pc[g] = "publish"
    /\ nfb' = [nfb EXCEPT ![g] = @ + 1]
    /\ scen' = [scen EXCEPT ![g] = ScenNext(g, TRUE)]
    /\ IF feedback_msg[g].reached_goal
       THEN /\ handle' = [handle EXCEPT ![g] = "succeeded"]
            /\ outcome' = [outcome EXCEPT ![g] = "succeeded"]
            /\ pc' = [pc EXCEPT ![g] = "join"]
       ELSE /\ pc' = [pc EXCEPT ![g] = "sleep"]
            /\ UNCHANGED << handle, outcome >>
    /\ UNCHANGED << _stat, now, ok, request, cmds, feed, clients, transport >>
    /\ UNCHANGED feedVars
    /\ UNCHANGED << thread, start_time, dt, feedback_msg, result_msg >>
    /\ UNCHANGED << nticks, objSeen >>

\* Line 163: rate.sleep() returns at a later period of the rate.
Sleep(g) ==
    /\ pc[g] = "sleep"
    /\ now > start_time[g] + dt[g]
    /\ pc' = [pc EXCEPT ![g] = "while"]
    /\ UNCHANGED << _stat, now, ok, handle, request, cmds, feed, clients, transport >>
    /\ UNCHANGED feedVars
    /\ UNCHANGED << thread, start_time, dt, feedback_msg, result_msg >>
    /\ UNCHANGED histVars

\* Line 165: thread.join()
Join(g) ==
    /\ pc[g] = "join"
    /\ thread[g] = "finished"
    /\ pc' = [pc EXCEPT ![g] = "return"]
    /\ UNCHANGED << _stat, now, ok, handle, request, cmds, feed, clients, transport >>
    /\ UNCHANGED feedVars
    /\ UNCHANGED << thread, start_time, dt, feedback_msg, result_msg >>
    /\ UNCHANGED histVars

\* The return statement without the assignment of line 166.
ReturnUnassigned(g) ==
    /\ pc[g] = "return"
    /\ pc' = [pc EXCEPT ![g] = IF "result" \in BoundNames THEN "returned" ELSE "raised"]
    /\ UNCHANGED << _stat, now, ok, handle, request, cmds, feed, clients, transport >>
    /\ UNCHANGED feedVars
    /\ UNCHANGED << thread, start_time, dt, feedback_msg, result_msg >>
    /\ UNCHANGED histVars

\* Lines 166-167: result_msg = feedback_msg; return result. No name 'result'
\* is bound, so the return statement raises NameError.
Return(g) ==
    /\ pc[g] = "return"
    /\ result_msg' = [result_msg EXCEPT ![g] = feedback_msg[g]]
    /\ pc' = [pc EXCEPT ![g] = IF "result" \in BoundNames THEN "returned" ELSE "raised"]
    /\ UNCHANGED << _stat, now, ok, handle, request, cmds, feed, clients, transport >>
    /\ UNCHANGED feedVars
    /\ UNCHANGED << thread, start_time, dt, feedback_msg >>
    /\ UNCHANGED histVars

Next ==
    \/ get_time
    \/ Shutdown
    \/ \E data \in StatValues : _update_gripper_stat(data)
    \/ \E g \in Goals, goal_request \in Requests : GoalRequest(g, goal_request)
    \/ \E g \in Goals : CancelRequest(g)
    \/ \E g \in Goals : SpinExit(g)
    \/ \E g \in Goals : Dispatch(g)
    \/ \E g \in Goals : LoopInit(g)
    \/ \E g \in Goals : LoopHead(g)
    \/ \E g \in Goals : CheckStat(g)
    \/ \E g \in Goals : ReadPosition(g)
    \/ \E g \in Goals : ReadStalled(g)
    \/ \E g \in Goals : CheckReached(g)
    \/ \E g \in Goals : PublishFeedback(g)
    \/ \E g \in Goals : Sleep(g)
    \/ \E g \in Goals : Join(g)
    \/ \E g \in Goals : Return(g)

Spec == Init /\ [][Next]_vars

\* The same server in the last period of the clock, with a goal sent for every
\* goal handle and a feed of one status.
InitGoals ==
    /\ _stat = None
    /\ now = MaxTime - 1
    /\ ok = TRUE
    /\ handle = [g \in Goals |-> "none"]
    /\ request = [g \in Goals |-> NoRequest]
    /\ pc = [g \in Goals |-> "idle"]
    /\ thread = [g \in Goals |-> "none"]
    /\ start_time = [g \in Goals |-> 0]
    /\ dt = [g \in Goals |-> 0]
    /\ feedback_msg = [g \in Goals |-> Feedback]
    /\ result_msg = [g \in Goals |-> Feedback]
    /\ cmds = << >>
    /\ outcome = [g \in Goals |-> "none"]
    /\ nticks = [g \in Goals |-> 0]
    /\ nfb = [g \in Goals |-> 0]
    /\ objSeen = [g \in Goals |-> FALSE]
    /\ scen = [g \in Goals |-> 0]
    /\ feed = { GripperStat(380, TRUE, FALSE) }
    /\ clients = Cardinality(Goals)
    /\ transport = "up"
    /\ stat_msg = None
    /\ heard = [g \in Goals |-> FALSE]

SpecGoals == InitGoals /\ [][Next]_vars

\* The same server with one goal sent, where the command topic may have no
\* transport.
InitTransport ==
    /\ _stat = None
    /\ now = 0
    /\ ok = TRUE
    /\ handle = [g \in Goals |-> "none"]
    /\ request = [g \in Goals |-> NoRequest]
    /\ pc = [g \in Goals |-> "idle"]
    /\ thread = [g \in Goals |-> "none"]
    /\ start_time = [g \in Goals |-> 0]
    /\ dt = [g \in Goals |-> 0]
    /\ feedback_msg = [g \in Goals |-> Feedback]
    /\ result_msg = [g \in Goals |-> Feedback]
    /\ cmds = << >>
    /\ outcome = [g \in Goals |-> "none"]
    /\ nticks = [g \in Goals |-> 0]
    /\ nfb = [g \in Goals |-> 0]
    /\ objSeen = [g \in Goals |-> FALSE]
    /\ scen = [g \in Goals |-> 0]
    /\ feed = { GripperStat(200, TRUE, FALSE), GripperStat(380, TRUE, FALSE) }
    /\ clients = 1
    /\ transport \in {"up", "down"}
    /\ stat_msg = None
    /\ heard = [g \in Goals |-> FALSE]

SpecTransport == InitTransport /\ [][Next]_vars

\* The steps of the thread that runs _execute_callback for goal g.
Thread(g) ==
    \/ Dispatch(g)
    \/ LoopInit(g)
    \/ LoopHead(g)
    \/ CheckStat(g)
    \/ ReadPosition(g)
    \/ ReadStalled(g)
    \/ CheckReached(g)
    \/ PublishFeedback(g)
    \/ Sleep(g)
    \/ Join(g)
    \/ Return(g)

\* Spec with the scheduling the interpreter and the clock give: the clock
\* keeps moving, a thread that can take a step takes it, a spin thread ends
\* once the context is shut down.
FairSpec ==
    /\ Init
    /\ [][Next]_vars
    /\ WF_vars(get_time)
    /\ \A g \in Goals : WF_vars(Thread(g)) /\ WF_vars(SpinExit(g))

\* ------------------------------------------------------------ claims ---
\* The execution of goal g is active: dispatch done, callback not yet over.
Active(g) ==
    pc[g] \in { "init", "while", "stat", "position", "stalled", "reached", "publish",
                "sleep", "join", "return" }

\* _execute_callback of goal g is over: it returned a value or raised.
Finished(g) == pc[g] \in {"returned", "raised"}

\* The executor of goal g is in its polling loop.
Polling(g) ==
    pc[g] \in {"while", "stat", "position", "stalled", "reached", "publish", "sleep"}

\* The commands the execution of goal g published.
CmdsOf(g) == SelectSeq(cmds, LAMBDA c : c.goal = g)

\* C1: every accepted goal ends with _execute_callback returning a Result
\* to the caller: a callback that is over has returned, never raised.
C1_ResultReturned ==
    \A g \in Goals : Finished(g) => pc[g] = "returned"

\* C2: an execution publishes exactly one command, before its first poll
\* tick and however many ticks follow, and the command carries the goal's
\* position, the goal's max_effort and the configured speed.
C2_OneCommand ==
    \A g \in Goals :
        IF pc[g] \in {"idle", "ready"}
        THEN Len(CmdsOf(g)) = 0 /\ nticks[g] = 0
        ELSE /\ Len(CmdsOf(g)) = 1
             /\ CmdsOf(g)[1].position = request[g].position
             /\ CmdsOf(g)[1].force = request[g].max_effort
             /\ CmdsOf(g)[1].speed = _gripper_speed

C2_Witness ==
    \E g \in Goals : nticks[g] >= 3 /\ Len(cmds) = 1 /\ cmds[1].position = 400

\* C3 (as amended): a tick that reads a position within tolerance publishes
\* reached_goal = true and ends the loop as Succeeded; a tick that reads a
\* position outside tolerance with no object detected publishes
\* reached_goal = false and stays in Polling. In the scenario (target 0.04:
\* none, 0.02 moving, 0.038 moving) the goal succeeds on the tick that
\* reads 0.038, with position 0.038, stalled = false.
C3_ToleranceTermination ==
    \A g \in Goals :
        LET error == fabs(request[g].position - feedback_msg[g].position) IN
        /\ pc[g] = "publish" /\ error < _position_tolerance => feedback_msg[g].reached_goal
        /\ pc[g] = "publish" /\ error >= _position_tolerance /\ ~objSeen[g] => ~feedback_msg[g].reached_goal
        /\ Polling(g) /\ pc[g] # "publish" => ~feedback_msg[g].reached_goal
        /\ Polling(g) => outcome[g] = "none" /\ handle[g] # "succeeded"
        /\ pc[g] \in {"sleep", "while"} /\ nfb[g] > 0 => error >= _position_tolerance
        /\ outcome[g] = "succeeded" =>
              /\ handle[g] = "succeeded"
              /\ feedback_msg[g].reached_goal
              /\ error < _position_tolerance \/ objSeen[g]
        /\ request[g].position = 400 /\ scen[g] \in {1, 2} => outcome[g] # "succeeded"
        /\ request[g].position = 400 /\ scen[g] = 3 =>
              /\ outcome[g] = "succeeded"
              /\ nticks[g] = 3
              /\ feedback_msg[g] = [position |-> 380, stalled |-> FALSE, reached_goal |-> TRUE]

C3_Witness ==
    \E g \in Goals :
        request[g].position = 400 /\ scen[g] = 3 /\ outcome[g] = "succeeded"

\* C3 as stated: in the scenario the tick on which the goal succeeds reports
\* stalled = true (the tick of position 0.041, is_moving = false).
C3_ScenarioStalled ==
    \A g \in Goals :
        request[g].position = 400 /\ scen[g] >= 3 /\ outcome[g] = "succeeded"
            => feedback_msg[g].stalled /\ feedback_msg[g].position = 410

\* C4: a tick (before the timeout) that finds obj_detected = true publishes
\* reached_goal = true and ends as Succeeded on that tick, whatever the
\* position error.
C4_ObjectDetect ==
    \A g \in Goals :
        objSeen[g] =>
            /\ feedback_msg[g].reached_goal
            /\ \/ pc[g] = "publish"
               \/ outcome[g] = "succeeded" /\ handle[g] = "succeeded" /\ ~Polling(g)

C4_Witness ==
    \E g \in Goals :
        /\ objSeen[g]
        /\ outcome[g] = "succeeded"
        /\ fabs(request[g].position - feedback_msg[g].position) >= _position_tolerance

\* C5: a goal that times out does so on a tick with elapsed >= timeout and
\* its callback returns a Result with reached_goal = false.
C5_TimeoutResult ==
    \A g \in Goals :
        outcome[g] = "timedout" =>
            /\ dt[g] >= TimeoutTicks
            /\ Finished(g) => pc[g] = "returned" /\ ~result_msg[g].reached_goal

\* C6 (as amended): while no status has ever arrived, no feedback is
\* published and the loop is left only by the timeout test, on a tick with
\* elapsed >= timeout, or by the loop test once rclpy.ok() is false.
C6_NoStatus ==
    \A g \in Goals :
        ~_stat.present =>
            /\ nfb[g] = 0
            /\ ~feedback_msg[g].reached_goal
            /\ outcome[g] \in {"none", "timedout", "shutdown"}
            /\ outcome[g] = "timedout" => dt[g] >= TimeoutTicks
            /\ outcome[g] = "shutdown" => ~ok
            /\ outcome[g] = "none" => ~Finished(g) /\ pc[g] # "join"

C6_Witness ==
    \E g \in Goals :
        ~_stat.present /\ outcome[g] = "timedout" /\ nticks[g] >= 2 /\ nfb[g] = 0

\* C6 as stated: with no status ever published the loop is left only at
\* elapsed >= timeout.
C6_OnlyTimeout ==
    \A g \in Goals :
        ~_stat.present /\ outcome[g] # "none" =>
            outcome[g] = "timedout" /\ dt[g] >= TimeoutTicks

\* C7: the cancel request is consulted on every tick: once a cancel request
\* was accepted, the next loop test starts no further tick (the goal ends,
\* Canceled or TimedOut).
C7_CancelEndsGoal ==
    [][\A g \in Goals :
          handle[g] = "canceling" /\ pc[g] = "while" => pc'[g] # "stat"]_vars

\* C8: a goal requested while another goal is executing is rejected by the
\* goal-request handler.
C8_SecondGoalRejected ==
    [][\A g \in Goals :
          /\ handle[g] = "none"
          /\ handle'[g] # "none"
          /\ \E h \in Goals \ {g} : Executing(h)
          => handle'[g] = "rejected"]_vars

\* C9: at most one goal execution is active.
C9_OneActive ==
    Cardinality({g \in Goals : Active(g)}) <= 1

\* C10: on the timeout path the goal handle is put in the terminal status
\* of a success.
C10_TimeoutCompleted ==
    \A g \in Goals : outcome[g] = "timedout" => handle[g] = "succeeded"

C12_HandlersAccept ==
    [][\A g \in Goals :
          /\ handle[g] = "none" /\ handle'[g] # "none" =>
                /\ handle'[g] = "executing"
                /\ pc'[g] = "ready"
                /\ _stat' = _stat /\ cmds' = cmds
          /\ handle[g] = "executing" /\ handle'[g] \notin {"executing", "succeeded"} =>
                /\ handle'[g] = "canceling"
                /\ _stat' = _stat /\ cmds' = cmds]_vars

C12_Witness ==
    /\ handle[1] = "canceling"
    /\ handle[2] = "executing"
    /\ request[1].position = 250
    /\ request[2].position = 400

\* C13: a goal whose command dispatch fails ends at once in a failed
\* terminal status, with no poll tick and no feedback, and its callback
\* still returns a result to the caller.
C13_DispatchFailure ==
    \A g \in Goals :
        outcome[g] = "dispatch_failed" =>
            /\ nticks[g] = 0
            /\ nfb[g] = 0
            /\ handle[g] = "aborted"
            /\ pc[g] = "returned"

\* C14: once the polling loop is left through success or timeout, the
\* callback finishes, unless the process is shut down.
C14_CallbackReturns ==
    \A g \in Goals :
        [](outcome[g] \in {"succeeded", "timedout"} => <>(Finished(g) \/ ~ok))

\* C15: the position, the stalled flag and the obj_detected value a tick
\* uses for its feedback and its success decision are those of one status
\* published on /gripper/stat.
C15_NoTearing ==
    \A g \in Goals :
        pc[g] = "publish" =>
            \E s \in StatValues :
                /\ feedback_msg[g].position = s.position
                /\ feedback_msg[g].stalled = ~s.is_moving
                /\ ~WithinTolerance(g, feedback_msg[g].position) =>
                      objSeen[g] = s.obj_detected

\* C16: the feedback a tick publishes is computed from the one status s the
\* tick read: position s.position, stalled = not s.is_moving, reached_goal =
\* (|target - s.position| < tolerance, strictly) or s.obj_detected; a tick
\* publishes at most one feedback.
C16_FeedbackOfStatus ==
    \A g \in Goals :
        /\ nfb[g] <= nticks[g]
        /\ pc[g] = "publish" =>
              \E s \in StatValues :
                  feedback_msg[g] =
                      [position |-> s.position,
                       stalled |-> ~s.is_moving,
                       reached_goal |->
                           \/ fabs(request[g].position - s.position) < _position_tolerance
                           \/ s.obj_detected]

\* C17: a loop test at elapsed >= timeout ends the loop as TimedOut: it
\* starts no tick, reads no status, publishes no feedback and marks no
\* success, whatever the status register holds; a tick starts only at
\* elapsed < timeout.
C17_TimeoutFirst ==
    [][\A g \in Goals :
          /\ pc[g] = "while" /\ ok /\ now - start_time[g] >= TimeoutTicks /\ pc'[g] # "while" =>
                /\ pc'[g] = "join"
                /\ outcome'[g] = "timedout"
                /\ nfb'[g] = nfb[g]
                /\ nticks'[g] = nticks[g]
                /\ handle'[g] = handle[g]
                /\ feedback_msg'[g] = feedback_msg[g]
          /\ pc[g] = "while" /\ pc'[g] = "stat" => now - start_time[g] < TimeoutTicks]_vars

C17_Witness ==
    \E g \in Goals :
        /\ outcome[g] = "timedout"
        /\ nfb[g] = 0
        /\ ~feedback_msg[g].reached_goal
        /\ handle[g] = "executing"
        /\ now = start_time[g] + dt[g]
        /\ _stat.present
        /\ fabs(request[g].position - _stat.position) < _position_tolerance

\* C18: the status register is a single slot where the last writer wins: it
\* always holds the last message delivered on the topic (None exactly while
\* none was delivered), it never goes back to None, and each read of the
\* polling loop returns that last message.
C18_LastWriterWins ==
    [][/\ _stat = stat_msg
       /\ _stat' = stat_msg'
       /\ _stat.present => _stat'.present
       /\ \A g \in Goals :
             /\ pc[g] = "stat" /\ pc'[g] = "position" => stat_msg.present
             /\ pc[g] = "stat" /\ pc'[g] = "sleep" => ~stat_msg.present
             /\ pc[g] = "position" /\ pc'[g] = "stalled" =>
                   feedback_msg'[g].position = stat_msg.position
             /\ pc[g] = "stalled" /\ pc'[g] = "reached" =>
                   feedback_msg'[g].stalled = ~stat_msg.is_moving
             /\ pc[g] = "reached" /\ pc'[g] = "publish" =>
                   objSeen'[g] = stat_msg.obj_detected]_vars

\* A read returned a status that a later one has replaced in the register.
C18_Witness ==
    \E g \in Goals :
        /\ pc[g] = "stalled"
        /\ heard[g]
        /\ _stat.present
        /\ _stat = stat_msg
        /\ feedback_msg[g].position # _stat.position

\* C19: the handle is marked succeeded only by the publication of a feedback
\* with reached_goal = true, and stays succeeded; once the loop was left as
\* succeeded or timed out, the goal gets no further feedback, command or tick
\* and its outcome stays.
C19_TerminalAbsorbing ==
    [][\A g \in Goals :
          /\ handle'[g] = "succeeded" /\ handle[g] # "succeeded" =>
                /\ pc[g] = "publish"
                /\ feedback_msg[g].reached_goal
                /\ feedback_msg'[g] = feedback_msg[g]
                /\ nfb'[g] = nfb[g] + 1
                /\ outcome[g] = "none"
                /\ outcome'[g] = "succeeded"
          /\ handle[g] = "succeeded" => handle'[g] = "succeeded"
          /\ outcome[g] \in {"succeeded", "timedout"} =>
                /\ outcome'[g] = outcome[g]
                /\ nfb'[g] = nfb[g]
                /\ nticks'[g] = nticks[g]
                /\ CmdsOf(g)' = CmdsOf(g)
                /\ ~Polling(g)
                /\ ~Polling(g)']_vars

C19_Witness ==
    \E g \in Goals :
        /\ outcome[g] = "succeeded"
        /\ handle[g] = "succeeded"
        /\ Finished(g)
        /\ nfb[g] >= 2
        /\ now > start_time[g] + dt[g]

\* C20: no step of _execute_callback writes the status register, so the
\* register is as it was when the goal is dispatched and when it ends, and a
\* goal can succeed on its first tick from a status delivered before its
\* dispatch.
C20_ExecuteNeverWrites ==
    [][/\ (\E g \in Goals : pc'[g] # pc[g]) => _stat' = _stat
       /\ _stat' # _stat => UNCHANGED << threadVars, handle, cmds >>]_vars

C20_Witness ==
    \E g \in Goals :
        /\ outcome[g] = "succeeded"
        /\ nticks[g] = 1
        /\ nfb[g] = 1
        /\ ~heard[g]
        /\ _stat.present

====
